---- MODULE Spec2Model ----
(***************************************************************************)
(* ecs-down: the drainable container instance selector                     *)
(* (downscaler/ecs.go) and the batch scale-down orchestrator               *)
(* (DownScaler.Run / DownScaler.ScaleDown).                                *)
(*                                                                         *)
(* Container instance ARNs are the integers 1..n.  The control plane (ECS, *)
(* the Auto Scaling Group, EC2) is part of the state: the run reads it and *)
(* writes it through the calls the code makes, in the order it makes them. *)
(***************************************************************************)
EXTENDS Integers, Sequences, FiniteSets, TLC

\* ---------------------------------------------------------------- bounds
MaxInst == 3        \* container instances in the cluster
MaxFleet == 4       \* container instances in the cluster of an orchestrated run
MaxDesired == 4     \* -desired-count ranges over 1..MaxDesired
MaxBatch == 2       \* -batch-size ranges over 1..MaxBatch
MaxCount == 5       \* desired counts of the service and the group start in 0..MaxCount
MaxSlack == 1       \* the group's MinSize and MaxSize start within MaxSlack of its desired
MaxTime == 2        \* launch times range over 1..MaxTime
MaxPage == 2        \* page size of a listing ranges over 1..MaxPage
MaxServices == 1    \* ActiveServicesCount ranges over 0..MaxServices

\* An EC2 launch time the describe calls did not yield (a nil *time.Time).
NoTime == 0

\* A missing ActiveServicesCount (a nil *int64).
NilCount == -1

VARIABLES
    Config,      \* the run's configuration (type Config)
    cluster,     \* the container instances registered in the cluster
    staleAgent,  \* the instances the agentVersion filter matched
    instanceAge, \* ARN -> launch time resolved for it (containerArnToInstanceAge), or NoTime
    allArns,     \* findDrainableContainerInstances: allArns
    seen,        \* findDrainableContainerInstances: seen
    tiers,       \* per findInstances call: its filter, the ARNs it claimed, what it appended
    describeClustersErr, \* drainAtTaskCount: whether its DescribeClusters call returned an error
    candidates,  \* the selector's returned list (Run: containerInstances)
    result,      \* "" while running, "ok", or the error returned
    pc,          \* the position of the run in the code
    svcDesired,  \* control plane: the ECS service's DesiredCount
    asg,         \* control plane: the group's MinSize, DesiredCapacity, MaxSize
    status,      \* control plane: ARN -> "ACTIVE", "DRAINING" or "TERMINATED"
    service,     \* Run: the DesiredCount of the *ecs.Service s it holds
    originalTaskCount, \* Run: originalTaskCount
    start,       \* Run: the loop variable start
    batch,       \* ScaleDown: containerInstances
    desiredCount,      \* ScaleDown: desiredCount
    instanceDesired,   \* ScaleDown: instanceDesired
    drained,     \* ScaleDown: drained
    next,        \* terminateContainerInstances: index of the next instance to terminate
    batches,     \* the slices [lo, hi) of the candidate list handed to ScaleDown
    log          \* the mutating control-plane calls and warnings issued, in order

selLocals == <<staleAgent, instanceAge, allArns, seen, tiers, describeClustersErr>>

orchVars == <<svcDesired, asg, status, service, originalTaskCount, start, batch, desiredCount,
              instanceDesired, drained, next, batches, log>>

vars == <<Config, cluster, selLocals, candidates, result, pc, orchVars>>

\* ---------------------------------------------------------------- helpers
Min(a, b) == IF a < b THEN a ELSE b

Range(s) == {s[i] : i \in 1..Len(s)}

NoDup(s) == \A i, j \in 1..Len(s) : i # j => s[i] # s[j]

\* All orders in which the elements of S can be listed.
Perms(S) ==
    {f \in [1..Cardinality(S) -> S] : \A i, j \in 1..Cardinality(S) : i # j => f[i] # f[j]}

\* items[i:endThreshold] for consecutive i, n apart.
RECURSIVE paginateStringArray(_, _)
paginateStringArray(items, n) ==
    IF Len(items) = 0 THEN <<>>
    ELSE LET endThreshold == Min(n, Len(items))
         IN  <<SubSeq(items, 1, endThreshold)>>
                 \o paginateStringArray(SubSeq(items, endThreshold + 1, Len(items)), n)

\* The pages the control plane serves for a listing: every page but the last
\* carries a NextToken; an empty listing is one empty page.
Pages(listing, n) ==
    LET chunks == paginateStringArray(listing, n)
    IN  IF Len(chunks) = 0
        THEN <<[ContainerInstanceArns |-> <<>>, NextToken |-> FALSE]>>
        ELSE [k \in 1..Len(chunks) |->
                 [ContainerInstanceArns |-> chunks[k], NextToken |-> k < Len(chunks)]]

\* ---------------------------------------------------------------- selector
\* fn without the seen check.
RECURSIVE fnArns_noSeenCheck(_, _, _)
fnArns_noSeenCheck(pageArns, k, acc) ==
    IF k > Len(pageArns) THEN acc
    ELSE fnArns_noSeenCheck(pageArns, k + 1,
                            [acc EXCEPT !.seen = @ \cup {pageArns[k]},
                                        !.arns = Append(@, pageArns[k])])

\* The page callback fn of findInstances: dedupes one page against seen.
RECURSIVE fnArns(_, _, _)
fnArns(pageArns, k, acc) ==
    IF k > Len(pageArns) THEN acc
    ELSE LET arnPtr == pageArns[k]
         IN  IF arnPtr \notin acc.seen
             THEN fnArns(pageArns, k + 1,
                         [acc EXCEPT !.seen = @ \cup {arnPtr}, !.arns = Append(@, arnPtr)])
             ELSE fnArns(pageArns, k + 1, [acc EXCEPT !.skipped = @ + 1])

\* What fn returns: whether the pager should fetch the next page.
fnContinue(page) == page.NextToken

\* ListContainerInstancesPagesWithContext: calls fn page by page until fn
\* returns false or the pages are exhausted.
RECURSIVE ListContainerInstancesPages(_, _, _)
ListContainerInstancesPages(pages, k, acc) ==
    IF k > Len(pages) THEN acc
    ELSE LET a == fnArns(pages[k].ContainerInstanceArns, 1, acc)
         IN  IF fnContinue(pages[k])
             THEN ListContainerInstancesPages(pages, k + 1, a)
             ELSE a

\* The comparator with the times swapped: newest first.
less_newestFirst(age, wi, wj) ==
    IF age[wi] = NoTime THEN [lt |-> FALSE, err |-> TRUE]
    ELSE IF age[wj] = NoTime THEN [lt |-> FALSE, err |-> TRUE]
    ELSE [lt |-> age[wi] > age[wj], err |-> FALSE]

\* The comparator handed to sort.Slice: work[i] before work[j]?
less(age, wi, wj) ==
    IF age[wi] = NoTime THEN [lt |-> FALSE, err |-> TRUE]
    ELSE IF age[wj] = NoTime THEN [lt |-> FALSE, err |-> TRUE]
    ELSE [lt |-> age[wj] > age[wi], err |-> FALSE]

Swap(w, i, j) == [w EXCEPT ![i] = w[j], ![j] = w[i]]

\* sort.Slice on a short slice is an insertion sort: element i sinks while
\* less(j, j-1) holds.  st = [work, err].
RECURSIVE sinkElement(_, _, _)
sinkElement(age, st, j) ==
    IF j <= 1 THEN st
    ELSE LET c == less(age, st.work[j], st.work[j - 1])
             e == st.err \/ c.err
         IN  IF c.lt
             THEN sinkElement(age, [work |-> Swap(st.work, j, j - 1), err |-> e], j - 1)
             ELSE [st EXCEPT !.err = e]

RECURSIVE sortSlice(_, _, _)
sortSlice(age, st, i) ==
    IF i > Len(st.work) THEN st
    ELSE sortSlice(age, sinkElement(age, st, i), i + 1)

\* sortECSContainersByInstanceAge: [work, err]; describeOk is whether the
\* DescribeContainerInstances and DescribeInstances calls succeeded.
sortECSContainersByInstanceAge(age, containerArns, describeOk) ==
    IF ~describeOk
    THEN [work |-> <<>>, err |-> "cannot describe instances"]
    ELSE LET s == sortSlice(age, [work |-> containerArns, err |-> FALSE], 2)
         IN  [work |-> s.work,
              err |-> IF s.err THEN "container ARN age empty" ELSE ""]

\* The listing half of the closure findInstances: the pager runs fn over the
\* control plane's answer resp = [ok, pages].  [seen, arns, skipped, err].
listInstances(seenBefore, resp) ==
    IF ~resp.ok
    THEN [seen |-> seenBefore, arns |-> <<>>, skipped |-> 0,
          err |-> "ListContainerInstances failed"]
    ELSE [ListContainerInstancesPages(resp.pages, 1,
              [seen |-> seenBefore, arns |-> <<>>, skipped |-> 0, err |-> ""])
          EXCEPT !.err = ""]

\* findInstances putting the call's arns in front of allArns.
findInstances_prepend(sortByAge, age, all, listed, describeOk) ==
    IF listed.err # ""
    THEN [allArns |-> all, arns |-> <<>>, sorted |-> FALSE, err |-> listed.err]
    ELSE LET doSort == sortByAge /\ Len(listed.arns) > 1
             s == IF doSort
                  THEN sortECSContainersByInstanceAge(age, listed.arns, describeOk)
                  ELSE [work |-> listed.arns, err |-> ""]
         IN  IF s.err # ""
             THEN [allArns |-> all, arns |-> <<>>, sorted |-> doSort, err |-> s.err]
             ELSE [allArns |-> s.work \o all, arns |-> s.work, sorted |-> doSort,
                   err |-> ""]

\* The rest of findInstances: sort the call's arns if asked to, then append
\* them to allArns.  listed is listInstances' outcome.
findInstances(sortByAge, age, all, listed, describeOk) ==
    IF listed.err # ""
    THEN [allArns |-> all, arns |-> <<>>, sorted |-> FALSE, err |-> listed.err]
    ELSE LET doSort == sortByAge /\ Len(listed.arns) > 1
             s == IF doSort
                  THEN sortECSContainersByInstanceAge(age, listed.arns, describeOk)
                  ELSE [work |-> listed.arns, err |-> ""]
         IN  IF s.err # ""
             THEN [allArns |-> all, arns |-> <<>>, sorted |-> doSort, err |-> s.err]
             ELSE [allArns |-> all \o s.work, arns |-> s.work, sorted |-> doSort,
                   err |-> ""]

\* drainAtTaskCount: [count, err] from the DescribeClusters answer.
drainAtTaskCount(out) ==
    IF ~out.ok THEN [count |-> -1, err |-> ""]
    ELSE IF out.clusters # 1 THEN [count |-> -1, err |-> "expected 1 cluster"]
    ELSE IF out.ActiveServicesCount = NilCount
         THEN [count |-> -1, err |-> "nil active services count"]
    ELSE [count |-> out.ActiveServicesCount - 1, err |-> ""]

\* The truncation handing on every listed instance.
drainable_untruncated(arns, desired) ==
    LET drainCount == Len(arns) - desired
    IN  IF drainCount <= 0
        THEN [arns |-> <<>>, err |-> "not enough container instances"]
        ELSE [arns |-> arns, err |-> ""]

\* The truncation failing only below zero.
drainable_zeroAllowed(arns, desired) ==
    LET drainCount == Len(arns) - desired
    IN  IF drainCount < 0
        THEN [arns |-> <<>>, err |-> "not enough container instances"]
        ELSE [arns |-> SubSeq(arns, 1, drainCount), err |-> ""]

\* The final truncation of findDrainableContainerInstances.
drainable(arns, desired) ==
    LET drainCount == Len(arns) - desired
    IN  IF drainCount <= 0
        THEN [arns |-> <<>>, err |-> "not enough container instances"]
        ELSE [arns |-> SubSeq(arns, 1, drainCount), err |-> ""]

\* ---------------------------------------------------------------- control plane
\* The sets of instances a filtered listing can match.  No instance runs a
\* negative number of tasks.
Matching(filter, arg) ==
    IF filter = "" THEN {cluster}
    ELSE IF filter = "runningTasksCount" /\ arg < 0 THEN {{}}
    ELSE SUBSET cluster

\* The answers DescribeClusters can give.
DescribeClustersAnswers ==
    {[ok |-> FALSE, clusters |-> 0, ActiveServicesCount |-> NilCount]}
    \cup {[ok |-> TRUE, clusters |-> c, ActiveServicesCount |-> a] :
             c \in {0, 1}, a \in {NilCount} \cup 0..MaxServices}

\* The launch times the two describe calls of the sort can resolve for arns.
AgeAnswers(arns) == [Range(arns) -> {NoTime} \cup 1..MaxTime]

\* ---------------------------------------------------------------- selector steps
selFail(err) ==
    /\ pc' = "done"
    /\ result' = err
    /\ UNCHANGED <<Config, cluster, staleAgent, instanceAge, allArns, seen, tiers,
                   candidates, orchVars>>

\* The outcome r of a findInstances call for the listing outcome a.
selAppend(filter, m, a, age, r, nextPc) ==
    IF r.err # ""
    THEN selFail(r.err)
    ELSE /\ allArns' = r.allArns
         /\ seen' = a.seen
         /\ tiers' = Append(tiers, [filter |-> filter, claimed |-> Range(a.arns),
                                    arns |-> r.arns])
         /\ staleAgent' = IF filter = "agentVersion" THEN m ELSE staleAgent
         /\ instanceAge' = IF r.sorted
                           THEN [i \in cluster |->
                                    IF i \in Range(r.arns) THEN age[i] ELSE instanceAge[i]]
                           ELSE instanceAge
         /\ pc' = nextPc
         /\ UNCHANGED <<Config, cluster, candidates, result, orchVars>>

\* d.ecs.ListContainerInstancesPagesWithContext answers with the instances
\* matching the filter, in an order and a paging of its choosing, or fails;
\* findInstances consumes the answer, resolving launch times if it sorts.
findInstancesStep(filter, arg, nextPc) ==
    \E ok \in BOOLEAN :
      IF ~ok
      THEN selFail(listInstances(seen, [ok |-> FALSE, pages |-> <<>>]).err)
      ELSE \E n \in 1..MaxPage :
             \E m \in Matching(filter, arg) :
               \E order \in Perms(m) :
                 LET a == listInstances(seen, [ok |-> TRUE, pages |-> Pages(order, n)])
                 IN  IF Config.SortByAge /\ Len(a.arns) > 1
                     THEN \E describeOk \in BOOLEAN :
                            \E age \in AgeAnswers(a.arns) :
                              selAppend(filter, m, a, age,
                                        findInstances(TRUE, age, allArns, a, describeOk),
                                        nextPc)
                     ELSE selAppend(filter, m, a, instanceAge,
                                    findInstances(Config.SortByAge, instanceAge, allArns, a,
                                                  TRUE),
                                    nextPc)

selSkip(nextPc) ==
    /\ pc' = nextPc
    /\ UNCHANGED <<Config, cluster, staleAgent, instanceAge, allArns, seen, tiers,
                   candidates, result, orchVars>>

\* Container instances with old agent are first-pick.
AgentTier ==
    /\ pc = "agentTier"
    /\ IF Config.AgentVersionThreshold # ""
       THEN findInstancesStep("agentVersion", 0, "typeTier")
       ELSE selSkip("typeTier")
    /\ describeClustersErr' = describeClustersErr

\* Container instances of the matching type are next-pick.
TypeTier ==
    /\ pc = "typeTier"
    /\ IF Config.InstanceType # ""
       THEN findInstancesStep("instanceType", 0, "taskTier")
       ELSE selSkip("taskTier")
    /\ describeClustersErr' = describeClustersErr

\* Instances running few tasks are next.
TaskTier ==
    /\ pc = "taskTier"
    /\ IF Config.TaskCountDetect
       THEN \E out \in DescribeClustersAnswers :
              LET runningCount == drainAtTaskCount(out)
              IN  /\ describeClustersErr' = ~out.ok
                  /\ IF runningCount.err # ""
                     THEN selFail(runningCount.err)
                     ELSE findInstancesStep("runningTasksCount", runningCount.count,
                                            "catchAll")
       ELSE selSkip("catchAll") /\ describeClustersErr' = describeClustersErr

\* Anything leftover is last-pick.
CatchAllTier ==
    /\ pc = "catchAll"
    /\ findInstancesStep("", 0, "truncate")
    /\ describeClustersErr' = describeClustersErr

\* If there are c container instances and we want d, drain c - d.
Truncate ==
    /\ pc = "truncate"
    /\ LET r == drainable(allArns, Config.DesiredCount)
       IN  IF r.err # ""
           THEN selFail(r.err)
           ELSE /\ candidates' = r.arns
                /\ pc' = "ecsService"
                /\ UNCHANGED <<Config, cluster, staleAgent, instanceAge, allArns, seen,
                               tiers, result, orchVars>>
    /\ describeClustersErr' = describeClustersErr

SelNext == AgentTier \/ TypeTier \/ TaskTier \/ CatchAllTier \/ Truncate

\* ---------------------------------------------------------------- the selector as one call
\* One findInstances call inside findDrainableContainerInstances, on the
\* locals loc = [allArns, seen, err]; a call after an error is never made.
callFindInstances(cfg, loc, listAnswer, ans) ==
    IF loc.err # "" THEN loc
    ELSE LET a == listInstances(loc.seen, listAnswer)
             r == findInstances(cfg.SortByAge, ans.age, loc.allArns, a, ans.describeOk)
         IN  [allArns |-> r.allArns, seen |-> a.seen, err |-> r.err]

\* findDrainableContainerInstances for the control plane's answers ans:
\* [arns, err].
findDrainableContainerInstances(cfg, ans) ==
    LET l0 == [allArns |-> <<>>, seen |-> {}, err |-> ""]
        l1 == IF cfg.AgentVersionThreshold # ""
              THEN callFindInstances(cfg, l0, ans.agent, ans)
              ELSE l0
        l2 == IF cfg.InstanceType # ""
              THEN callFindInstances(cfg, l1, ans.type, ans)
              ELSE l1
        runningCount == drainAtTaskCount(ans.clusters)
        l3 == IF cfg.TaskCountDetect /\ l2.err = ""
              THEN IF runningCount.err # ""
                   THEN [l2 EXCEPT !.err = runningCount.err]
                   ELSE callFindInstances(cfg, l2, ans.task, ans)
              ELSE l2
        l4 == callFindInstances(cfg, l3, ans.all, ans)
    IN  IF l4.err # "" THEN [arns |-> <<>>, err |-> l4.err]
        ELSE drainable(l4.allArns, cfg.DesiredCount)

\* ARN order.
Ascending(k) == [i \in 1..k |-> i]

NoAnswer == [ok |-> FALSE, pages |-> <<>>]

\* The control plane's answers to the selector in an orchestrated run.  The
\* orchestrator treats ARNs as opaque, so the instances are numbered in the
\* order the selector comes to list them: the low-task-count listing matches
\* the first k, the unfiltered one lists all.  (SelectorSpec covers every
\* order and every overlap.)
RunAnswer(out, taskOk, allOk, k, n) ==
    [agent |-> NoAnswer, type |-> NoAnswer, clusters |-> out,
     task |-> [ok |-> taskOk, pages |-> IF taskOk THEN Pages(Ascending(k), n) ELSE <<>>],
     all |-> [ok |-> allOk,
              pages |-> IF allOk THEN Pages(Ascending(Cardinality(cluster)), n) ELSE <<>>],
     age |-> instanceAge, describeOk |-> TRUE]

\* No instance runs a negative number of tasks.  A call the selector does
\* not come to make has no answer to vary (it is left at the first one), nor
\* has a listing the selector throws away, which it does with all it has
\* listed once a call fails.
ValidAnswer(out, taskOk, allOk, k, n) ==
    /\ drainAtTaskCount(out).count < 0 => k = 0
    /\ drainAtTaskCount(out).err # "" => ~taskOk
    /\ ~taskOk => ~allOk
    /\ ~allOk => k = 0 /\ n = 1

\* ---------------------------------------------------------------- orchestrator
\* maxToRemove counting one instance too many.
maxToRemoveOf_oneMore(original, target) == original - target + 1

\* Run: maxToRemove.
maxToRemoveOf(original, target) == original - target

maxToRemove == maxToRemoveOf(originalTaskCount, Config.DesiredCount)

\* Run: the end of the batch starting at start.
batchEnd(from, batchSize, l) ==
    LET end == from + batchSize
    IN  IF end > l THEN l ELSE end

\* The for statement stepping by one instance.
advance_byOne(from, batchSize) == from + 1

\* Run: the for statement's post statement, start += d.BatchSize.
advance(from, batchSize) == from + batchSize

\* The loop bounded by the candidate list alone.
loopCondition_listOnly(from, l, max) == from < l

\* Run: the loop condition.
loopCondition(from, l, max) == from < l /\ from < max

\* ScaleDown: desiredCount.
scaleDownDesired(serviceDesired, containerInstances) ==
    serviceDesired - Len(containerInstances)

\* ScaleDown treating any difference of the two counts as a mismatch.
reconcile_anyDifference(wanted, asgDesired, containerInstances, allowASGMismatch) ==
    IF wanted + Len(containerInstances) # asgDesired
    THEN [instanceDesired |-> asgDesired - Len(containerInstances), mismatch |-> TRUE,
          err |-> IF allowASGMismatch THEN ""
                  ELSE "mismatched container and instance count not allowed"]
    ELSE [instanceDesired |-> wanted, mismatch |-> FALSE, err |-> ""]

\* ScaleDown: the instance-group target for the group's desired capacity
\* asgDesired.  [instanceDesired, mismatch, err].
reconcile(wanted, asgDesired, containerInstances, allowASGMismatch) ==
    IF wanted > asgDesired
    THEN [instanceDesired |-> asgDesired - Len(containerInstances), mismatch |-> TRUE,
          err |-> IF allowASGMismatch THEN ""
                  ELSE "mismatched container and instance count not allowed"]
    ELSE [instanceDesired |-> wanted, mismatch |-> FALSE, err |-> ""]

\* ScaleDown: whether the Scale step runs.
shouldScale(desired) == desired > 0

\* updateASG setting MaxSize whatever shouldSetMaxSize says.
updateASG_alwaysMax(group, minSize, shouldSetMaxSize) ==
    [MinSize |-> minSize, DesiredCapacity |-> minSize, MaxSize |-> minSize]

\* updateASG: the request's effect on the group.
updateASG(group, minSize, shouldSetMaxSize) ==
    [MinSize |-> minSize, DesiredCapacity |-> minSize,
     MaxSize |-> IF shouldSetMaxSize THEN minSize ELSE group.MaxSize]

\* Terminations that decrement the group's desired capacity.
decrementDesiredCapacity_true == TRUE

\* terminateContainerInstances: decrementDesiredCapacity.
decrementDesiredCapacity == FALSE

\* TerminateInstanceInAutoScalingGroup's effect on the group.
terminateInGroup(group, shouldDecrement) ==
    [group EXCEPT !.DesiredCapacity = IF shouldDecrement THEN @ - 1 ELSE @]

\* Outcomes of a call followed by a wait.
Outcomes == {"ok", "call failed", "wait failed"}

Entry(op, val) == [op |-> op, batch |-> Len(batches), val |-> val]

\* Run returns err.
Return(err) ==
    /\ pc' = "done"
    /\ result' = err

\* containerInstances, err := d.findDrainableContainerInstances(ctx)
FindDrainable ==
    /\ pc = "findDrainable"
    /\ \E out \in DescribeClustersAnswers, taskOk \in BOOLEAN, allOk \in BOOLEAN,
          k \in 0..Cardinality(cluster), n \in 1..MaxPage :
         /\ ValidAnswer(out, taskOk, allOk, k, n)
         /\ LET r == findDrainableContainerInstances(Config,
                                                     RunAnswer(out, taskOk, allOk, k, n))
            IN  IF r.err # ""
                THEN Return(r.err) /\ candidates' = candidates
                ELSE /\ candidates' = r.arns
                     /\ pc' = "ecsService"
                     /\ result' = result
         /\ describeClustersErr' = (Config.TaskCountDetect /\ ~out.ok)
    /\ UNCHANGED <<Config, cluster, staleAgent, instanceAge, allArns, seen, tiers, orchVars>>

\* s, err := d.ecsService(ctx), and the maxToRemove guard.
EcsService ==
    /\ pc = "ecsService"
    /\ \E ok \in BOOLEAN :
         IF ~ok
         THEN Return("DescribeServices failed") /\ UNCHANGED <<service, originalTaskCount>>
         ELSE /\ service' = svcDesired
              /\ originalTaskCount' = svcDesired
              /\ IF maxToRemoveOf(svcDesired, Config.DesiredCount) = 0
                 THEN Return("no room to decrease ECS cluster size")
                 ELSE pc' = "loop" /\ result' = result
    /\ start' = 0
    /\ UNCHANGED <<Config, cluster, selLocals, candidates, svcDesired, asg, status, batch,
                   desiredCount, instanceDesired, drained, next, batches, log>>

\* ScaleDown going to its Scale step before it drains the batch.
Loop_scaleFirst ==
    /\ pc = "loop"
    /\ IF loopCondition(start, Len(candidates), maxToRemove)
       THEN LET end == batchEnd(start, Config.BatchSize, Len(candidates))
                containerInstances == SubSeq(candidates, start + 1, end)
            IN  /\ batch' = containerInstances
                /\ batches' = Append(batches, [lo |-> start, hi |-> end])
                /\ desiredCount' = scaleDownDesired(service, containerInstances)
                /\ instanceDesired' = scaleDownDesired(service, containerInstances)
                /\ pc' = "updateECS"
       ELSE /\ pc' = "finalize"
            /\ UNCHANGED <<batch, batches, desiredCount, instanceDesired>>
    /\ UNCHANGED <<Config, cluster, selLocals, candidates, result, svcDesired, asg, status,
                   service, originalTaskCount, start, drained, next, log>>

\* The for statement of Run, and the entry of ScaleDown for the next batch.
Loop ==
    /\ pc = "loop"
    /\ IF loopCondition(start, Len(candidates), maxToRemove)
       THEN LET end == batchEnd(start, Config.BatchSize, Len(candidates))
                containerInstances == SubSeq(candidates, start + 1, end)
            IN  /\ batch' = containerInstances
                /\ batches' = Append(batches, [lo |-> start, hi |-> end])
                /\ desiredCount' = scaleDownDesired(service, containerInstances)
                /\ instanceDesired' = scaleDownDesired(service, containerInstances)
                /\ pc' = IF Config.InstanceFlip THEN "drain" ELSE "describeASG"
       ELSE /\ pc' = "finalize"
            /\ UNCHANGED <<batch, batches, desiredCount, instanceDesired>>
    /\ UNCHANGED <<Config, cluster, selLocals, candidates, result, svcDesired, asg, status,
                   service, originalTaskCount, start, drained, next, log>>

\* ScaleDown with the batch set to DRAINING before the group is read.
DescribeASG_drainFirst ==
    /\ pc = "describeASG"
    /\ \E ok \in BOOLEAN :
         IF ~ok
         THEN Return("cannot describe ASG") /\ UNCHANGED <<instanceDesired, log, status>>
         ELSE LET r == reconcile(instanceDesired, asg.DesiredCapacity, batch,
                                 Config.AllowASGMismatch)
              IN  /\ instanceDesired' = r.instanceDesired
                  /\ status' = [i \in DOMAIN status |->
                                   IF i \in Range(batch) THEN "DRAINING" ELSE status[i]]
                  /\ IF r.err # ""
                     THEN Return(r.err) /\ log' = log
                     ELSE /\ pc' = "drain"
                          /\ result' = result
                          /\ log' = IF r.mismatch
                                    THEN Append(log, Entry("Warning", r.instanceDesired))
                                    ELSE log
    /\ UNCHANGED <<Config, cluster, selLocals, candidates, svcDesired, asg, service,
                   originalTaskCount, start, batch, desiredCount, drained, next, batches>>

\* ScaleDown, not in flip mode: figure out instance desired count.
DescribeASG ==
    /\ pc = "describeASG"
    /\ \E ok \in BOOLEAN :
         IF ~ok
         THEN Return("cannot describe ASG") /\ UNCHANGED <<instanceDesired, log>>
         ELSE LET r == reconcile(instanceDesired, asg.DesiredCapacity, batch,
                                 Config.AllowASGMismatch)
              IN  /\ instanceDesired' = r.instanceDesired
                  /\ IF r.err # ""
                     THEN Return(r.err) /\ log' = log
                     ELSE /\ pc' = "drain"
                          /\ result' = result
                          /\ log' = IF r.mismatch
                                    THEN Append(log, Entry("Warning", r.instanceDesired))
                                    ELSE log
    /\ UNCHANGED <<Config, cluster, selLocals, candidates, svcDesired, asg, status, service,
                   originalTaskCount, start, batch, desiredCount, drained, next, batches>>

\* drained, err := d.drainContainerInstances(ctx, containerInstances)
Drain ==
    /\ pc = "drain"
    /\ \E ok \in BOOLEAN :
         IF ~ok
         THEN Return("UpdateContainerInstancesState failed")
              /\ UNCHANGED <<status, drained, log>>
         ELSE /\ status' = [i \in DOMAIN status |->
                               IF i \in Range(batch) THEN "DRAINING" ELSE status[i]]
              /\ drained' = batch
              /\ log' = Append(log, Entry("UpdateContainerInstancesState", Len(batch)))
              /\ pc' = IF shouldScale(desiredCount) THEN "updateECS" ELSE "terminate"
              /\ result' = result
    /\ next' = 1
    /\ UNCHANGED <<Config, cluster, selLocals, candidates, svcDesired, asg, service,
                   originalTaskCount, start, batch, desiredCount, instanceDesired, batches>>

\* service, err = d.updateECSService(ctx, desiredCount)
UpdateECS ==
    /\ pc = "updateECS"
    /\ \E outcome \in Outcomes :
         IF outcome = "call failed"
         THEN Return("UpdateService failed") /\ UNCHANGED <<svcDesired, service, log>>
         ELSE /\ svcDesired' = desiredCount
              /\ log' = Append(log, Entry("UpdateService", desiredCount))
              /\ IF outcome = "wait failed"
                 THEN Return("WaitUntilServicesStable failed") /\ service' = service
                 ELSE /\ service' = desiredCount
                      /\ pc' = IF Config.InstanceFlip THEN "terminate" ELSE "updateASG"
                      /\ result' = result
    /\ UNCHANGED <<Config, cluster, selLocals, candidates, asg, status, originalTaskCount,
                   start, batch, desiredCount, instanceDesired, drained, next, batches>>

\* d.updateASG(ctx, instanceDesired, false); the group rejects a negative size.
UpdateASG ==
    /\ pc = "updateASG"
    /\ \E outcome \in Outcomes :
         IF outcome = "call failed" \/ instanceDesired < 0
         THEN Return("UpdateAutoScalingGroup failed") /\ UNCHANGED <<asg, log>>
         ELSE /\ asg' = updateASG(asg, instanceDesired, FALSE)
              /\ log' = Append(log, Entry("UpdateAutoScalingGroup", instanceDesired))
              /\ IF outcome = "wait failed"
                 THEN Return("WaitUntilGroupInService failed")
                 ELSE pc' = "terminate" /\ result' = result
    /\ UNCHANGED <<Config, cluster, selLocals, candidates, svcDesired, status, service,
                   originalTaskCount, start, batch, desiredCount, instanceDesired, drained,
                   next, batches>>

\* terminateContainerInstances: one turn of the loop over the drained instances.
Terminate ==
    /\ pc = "terminate"
    /\ next <= Len(drained)
    /\ \E ok \in BOOLEAN :
         IF ~ok
         THEN Return("TerminateInstanceInAutoScalingGroup failed")
              /\ UNCHANGED <<asg, status, next, log>>
         ELSE /\ asg' = terminateInGroup(asg, decrementDesiredCapacity)
              /\ status' = [status EXCEPT ![drained[next]] = "TERMINATED"]
              /\ log' = Append(log, Entry("TerminateInstanceInAutoScalingGroup",
                                          drained[next]))
              /\ next' = next + 1
              /\ UNCHANGED <<pc, result>>
    /\ UNCHANGED <<Config, cluster, selLocals, candidates, svcDesired, service,
                   originalTaskCount, start, batch, desiredCount, instanceDesired, drained,
                   batches>>

\* terminateContainerInstances: WaitUntilInstanceTerminated; ScaleDown returns
\* and the for statement advances start.
WaitTerminated ==
    /\ pc = "terminate"
    /\ next > Len(drained)
    /\ \E ok \in BOOLEAN :
         IF ~ok
         THEN Return("WaitUntilInstanceTerminated failed") /\ start' = start
         ELSE /\ start' = advance(start, Config.BatchSize)
              /\ pc' = "loop"
              /\ result' = result
    /\ UNCHANGED <<Config, cluster, selLocals, candidates, svcDesired, asg, status, service,
                   originalTaskCount, batch, desiredCount, instanceDesired, drained, next,
                   batches, log>>

\* Flip mode reporting success whatever becomes of the restoring call.
FinalizeFlip_swallow ==
    /\ pc = "finalize"
    /\ Config.InstanceFlip
    /\ \E outcome \in Outcomes :
         /\ IF outcome = "call failed"
            THEN UNCHANGED <<svcDesired, log>>
            ELSE /\ svcDesired' = originalTaskCount
                 /\ log' = Append(log, Entry("UpdateService", originalTaskCount))
         /\ Return("ok")
    /\ UNCHANGED <<Config, cluster, selLocals, candidates, asg, status, service,
                   originalTaskCount, start, batch, desiredCount, instanceDesired, drained,
                   next, batches>>

\* Flip mode ending with the service at the run's target.
FinalizeFlip_toTarget ==
    /\ pc = "finalize"
    /\ Config.InstanceFlip
    /\ \E outcome \in Outcomes :
         IF outcome = "call failed"
         THEN Return("UpdateService failed") /\ UNCHANGED <<svcDesired, log>>
         ELSE /\ svcDesired' = Config.DesiredCount
              /\ log' = Append(log, Entry("UpdateService", Config.DesiredCount))
              /\ IF outcome = "wait failed"
                 THEN Return("WaitUntilServicesStable failed")
                 ELSE Return("ok")
    /\ UNCHANGED <<Config, cluster, selLocals, candidates, asg, status, service,
                   originalTaskCount, start, batch, desiredCount, instanceDesired, drained,
                   next, batches>>

\* Flip mode: returning ECS back to the original task count.
FinalizeFlip ==
    /\ pc = "finalize"
    /\ Config.InstanceFlip
    /\ \E outcome \in Outcomes :
         IF outcome = "call failed"
         THEN Return("UpdateService failed") /\ UNCHANGED <<svcDesired, log>>
         ELSE /\ svcDesired' = originalTaskCount
              /\ log' = Append(log, Entry("UpdateService", originalTaskCount))
              /\ IF outcome = "wait failed"
                 THEN Return("WaitUntilServicesStable failed")
                 ELSE Return("ok")
    /\ UNCHANGED <<Config, cluster, selLocals, candidates, asg, status, service,
                   originalTaskCount, start, batch, desiredCount, instanceDesired, drained,
                   next, batches>>

\* Set the ASG's final min, max, and desired count.
FinalizeASG ==
    /\ pc = "finalize"
    /\ ~Config.InstanceFlip
    /\ \E outcome \in Outcomes :
         IF outcome = "call failed"
         THEN Return("UpdateAutoScalingGroup failed") /\ UNCHANGED <<asg, log>>
         ELSE /\ asg' = updateASG(asg, Config.DesiredCount, TRUE)
              /\ log' = Append(log, Entry("UpdateAutoScalingGroup", Config.DesiredCount))
              /\ IF outcome = "wait failed"
                 THEN Return("WaitUntilGroupInService failed")
                 ELSE Return("ok")
    /\ UNCHANGED <<Config, cluster, selLocals, candidates, svcDesired, status, service,
                   originalTaskCount, start, batch, desiredCount, instanceDesired, drained,
                   next, batches>>

Next ==
    \/ FindDrainable
    \/ EcsService
    \/ Loop
    \/ DescribeASG
    \/ Drain
    \/ UpdateECS
    \/ UpdateASG
    \/ Terminate
    \/ WaitTerminated
    \/ FinalizeFlip
    \/ FinalizeASG

\* ---------------------------------------------------------------- configurations
AgentVersions == {"", "1.39.0"}
InstanceTypes == {"", "c6gd.16xlarge"}

\* The control plane before the run: nothing drained, the group's sizes ordered.
ControlPlaneInit(n) ==
    /\ status = [i \in 1..n |-> "ACTIVE"]
    /\ svcDesired \in 0..MaxCount
    /\ \E d \in 0..MaxCount, lo \in 0..MaxSlack, hi \in 0..MaxSlack :
         /\ d - lo >= 0
         /\ asg = [MinSize |-> d - lo, DesiredCapacity |-> d, MaxSize |-> d + hi]

LocalsInit ==
    /\ allArns = <<>>
    /\ seen = {}
    /\ staleAgent = {}
    /\ tiers = <<>>
    /\ describeClustersErr = FALSE
    /\ candidates = <<>>
    /\ result = ""
    /\ service = 0
    /\ originalTaskCount = 0
    /\ start = 0
    /\ batch = <<>>
    /\ desiredCount = 0
    /\ instanceDesired = 0
    /\ drained = <<>>
    /\ next = 1
    /\ batches = <<>>
    /\ log = <<>>

\* Every selector configuration, with the orchestrator's flags at their
\* defaults and a control plane the selector never reads.
SelInit ==
    /\ \E dc \in 1..MaxDesired, it \in InstanceTypes, av \in AgentVersions,
          sa \in BOOLEAN, tc \in BOOLEAN :
         Config = [DesiredCount |-> dc, BatchSize |-> 1, InstanceType |-> it,
                   InstanceFlip |-> FALSE, SortByAge |-> sa, TaskCountDetect |-> tc,
                   AllowASGMismatch |-> FALSE, AgentVersionThreshold |-> av]
    /\ \E n \in 1..MaxInst :
         /\ cluster = 1..n
         /\ instanceAge = [i \in 1..n |-> NoTime]
         /\ status = [i \in 1..n |-> "ACTIVE"]
    /\ svcDesired = 0
    /\ asg = [MinSize |-> 0, DesiredCapacity |-> 0, MaxSize |-> 0]
    /\ LocalsInit
    /\ pc = "agentTier"

SelectorSpec == SelInit /\ [][SelNext]_vars

\* A run of the program with the selector's flags at their defaults
\* (-disable-task-count unset, no preferred type, no agent threshold, no age
\* sorting), for every target, batch size, mode and control-plane state.
Init ==
    /\ \E dc \in 1..MaxDesired, bs \in 1..MaxBatch, flip \in BOOLEAN, allow \in BOOLEAN :
         Config = [DesiredCount |-> dc, BatchSize |-> bs, InstanceType |-> "",
                   InstanceFlip |-> flip, SortByAge |-> FALSE, TaskCountDetect |-> TRUE,
                   AllowASGMismatch |-> allow, AgentVersionThreshold |-> ""]
    /\ cluster = 1..MaxFleet
    /\ instanceAge = [i \in 1..MaxFleet |-> NoTime]
    /\ ControlPlaneInit(MaxFleet)
    /\ LocalsInit
    /\ pc = "findDrainable"

Spec == Init /\ [][Next]_vars

\* The same run with every control-plane call and wait returning: Run is one
\* goroutine of straight-line code, so its next step is taken once the call
\* it is blocked in has returned.
LiveSpec == Init /\ [][Next]_vars /\ WF_vars(Next)

\* ---------------------------------------------------------------- selector properties
\* The selector has returned a list to Run.
Selected == pc = "ecsService"

\* The errors of the selector that come from a failed control-plane call or
\* an unresolved launch time, not from the instance count.
CallErrors ==
    {"ListContainerInstances failed", "cannot describe instances",
     "container ARN age empty", "expected 1 cluster", "nil active services count"}

drainCountWanted == Cardinality(cluster) - Config.DesiredCount

\* C1: when the selector returns a list, (distinct instances in the cluster
\* - DesiredCount) is positive and is the list's length; when that quantity is
\* zero or negative the selector never returns a list, empty or not; and when
\* it is positive the only errors are those of a failed call or an
\* unresolved launch time.
C1_CandidateCount ==
    /\ Selected => drainCountWanted > 0 /\ Len(candidates) = drainCountWanted
    /\ drainCountWanted <= 0 /\ pc = "done" => result # "" /\ candidates = <<>>
    /\ drainCountWanted > 0 /\ pc = "done" => result \in CallErrors
    /\ pc = "truncate" => Len(allArns) = Cardinality(cluster)

C1_Witness ==
    /\ Selected
    /\ Len(candidates) = 2
    /\ Len(tiers) = 4
    /\ tiers[1].arns # <<>>

\* C2: no ARN appears twice in the returned list (nor in allArns while it is
\* built), whatever the listings overlap, however they are paged, sorted or not.
C2_NoDuplicates ==
    /\ NoDup(allArns)
    /\ Selected => NoDup(candidates)

\* The returned list spans two tiers, the later of which listed the earlier
\* one's instances again, with age-sorting on.
C2_Witness ==
    /\ Selected
    /\ Config.SortByAge
    /\ Len(tiers) = 3
    /\ Len(tiers[1].arns) = 1
    /\ Len(tiers[2].arns) = 2
    /\ Len(candidates) = 2

\* The findInstances call that claimed ARN a, and the priority of its filter.
TierOf(a) == CHOOSE k \in 1..Len(tiers) : a \in Range(tiers[k].arns)

Rank(filter) ==
    CASE filter = "agentVersion" -> 1
      [] filter = "instanceType" -> 2
      [] filter = "runningTasksCount" -> 3
      [] OTHER -> 4

Configured(filter) ==
    CASE filter = "agentVersion" -> Config.AgentVersionThreshold # ""
      [] filter = "instanceType" -> Config.InstanceType # ""
      [] filter = "runningTasksCount" -> Config.TaskCountDetect
      [] OTHER -> TRUE

\* C3: in the returned list an instance of a higher-priority tier precedes
\* every instance of a lower-priority tier; an instance the stale-agent filter
\* matched never comes after an instance claimed by another tier; and a tier
\* whose trigger is not configured claims nothing.
C3_TierOrder ==
    Selected =>
        /\ \A i, j \in 1..Len(candidates) :
             i < j => Rank(tiers[TierOf(candidates[i])].filter)
                          <= Rank(tiers[TierOf(candidates[j])].filter)
        /\ \A i, j \in 1..Len(candidates) :
             i < j /\ candidates[j] \in staleAgent
                 => tiers[TierOf(candidates[i])].filter = "agentVersion"
        /\ \A k \in 1..Len(tiers) : Configured(tiers[k].filter)
        /\ Config.AgentVersionThreshold = "" => staleAgent = {}

\* The stale-agent tier and a lower-priority tier both contribute to the
\* returned list, the stale-agent instance having the highest ARN.
C3_Witness ==
    /\ Selected
    /\ Len(candidates) = 2
    /\ staleAgent = {3}
    /\ candidates[1] = 3
    /\ tiers[TierOf(candidates[2])].filter = "instanceType"
    /\ Len(tiers) = 4

RECURSIVE Concat(_)
Concat(ts) == IF ts = <<>> THEN <<>> ELSE Head(ts).arns \o Concat(Tail(ts))

\* C4: with SortByAge, each call's contribution is a permutation of the ARNs
\* it claimed with non-decreasing launch times; a contribution of more than
\* one instance is appended only with every launch time resolved (otherwise
\* the selector has returned an error); and the list is the contributions
\* in call order, never sorted across them.
C4_SortedPerTier ==
    Config.SortByAge =>
        /\ \A k \in 1..Len(tiers) :
             LET c == tiers[k].arns
             IN  /\ Range(c) = tiers[k].claimed
                 /\ Len(c) = Cardinality(tiers[k].claimed)
                 /\ Len(c) > 1 =>
                      \A i \in 1..Len(c) :
                          /\ instanceAge[c[i]] # NoTime
                          /\ i < Len(c) => instanceAge[c[i]] <= instanceAge[c[i + 1]]
        /\ allArns = Concat(tiers)
        /\ Selected => candidates = SubSeq(allArns, 1, Len(candidates))
        /\ result = "container ARN age empty" => pc = "done" /\ candidates = <<>>

\* A tier of two instances listed newest first was sorted, after an earlier
\* tier had contributed.
C4_Witness ==
    /\ Selected
    /\ Config.SortByAge
    /\ Len(tiers) = 2
    /\ tiers[1].arns # <<>>
    /\ Len(tiers[2].arns) = 2
    /\ tiers[2].arns[1] > tiers[2].arns[2]
    /\ instanceAge[tiers[2].arns[1]] < instanceAge[tiers[2].arns[2]]

\* ---------------------------------------------------------------- orchestrator properties
Terminated == {i \in DOMAIN status : status[i] = "TERMINATED"}

Succeeded == pc = "done" /\ result = "ok"

\* The ARNs of the termination calls issued so far, in order.
TerminatedLog ==
    SelectSeq(log, LAMBDA e : e.op = "TerminateInstanceInAutoScalingGroup")

\* C5: the slices handed to ScaleDown are contiguous and in candidate order:
\* each starts where the previous one ended, every one but the last holds
\* exactly BatchSize candidates, the last between 1 and BatchSize, ScaleDown
\* works on exactly that slice, and no candidate is terminated twice.
C5_ContiguousBatches ==
    /\ \A k \in 1..Len(batches) :
         /\ batches[k].lo = IF k = 1 THEN 0 ELSE batches[k - 1].hi
         /\ batches[k].hi <= Len(candidates)
         /\ batches[k].hi - batches[k].lo \in 1..Config.BatchSize
         /\ k < Len(batches) => batches[k].hi - batches[k].lo = Config.BatchSize
    /\ Len(batches) > 0 =>
         batch = SubSeq(candidates, batches[Len(batches)].lo + 1, batches[Len(batches)].hi)
    /\ \A i, j \in 1..Len(TerminatedLog) :
         i # j => TerminatedLog[i].val # TerminatedLog[j].val
    /\ \A i \in 1..Len(TerminatedLog) : TerminatedLog[i].val = candidates[i]

\* A full batch of two followed by a last batch of one.
C5_Witness ==
    /\ Config.BatchSize = 2
    /\ Len(batches) = 2
    /\ batches[2] = [lo |-> 2, hi |-> 3]
    /\ Cardinality(Terminated) = 3

\* C6 as claimed: a successful non-flip run has terminated exactly
\* (initial instance count - DesiredCount) instances.
C6_AllCandidatesProcessed ==
    Succeeded /\ ~Config.InstanceFlip
        => Cardinality(Terminated) = Cardinality(cluster) - Config.DesiredCount

\* C7 as claimed: after a successful non-flip run the service's desired
\* count is the target DesiredCount.
C7_SchedulerAtTarget ==
    Succeeded /\ ~Config.InstanceFlip => svcDesired = Config.DesiredCount

InBatchLoop == pc \notin {"finalize", "done"}

AllAt(n) == [MinSize |-> n, DesiredCapacity |-> n, MaxSize |-> n]

\* The step issues an UpdateAutoScalingGroup request.
UpdatesGroup ==
    /\ Len(log') = Len(log) + 1
    /\ log'[Len(log')].op = "UpdateAutoScalingGroup"

\* What C8 says of MaxSize, of DesiredCapacity and of Finalize.
C8_Step ==
    /\ InBatchLoop => /\ asg'.MaxSize = asg.MaxSize
                      /\ asg'.DesiredCapacity <= asg.DesiredCapacity
    /\ asg'.MaxSize # asg.MaxSize => pc = "finalize" /\ ~Config.InstanceFlip
    /\ ~InBatchLoop /\ UpdatesGroup => asg' = AllAt(Config.DesiredCount)

\* C8 as claimed: in the batch loop no step changes MaxSize, raises
\* DesiredCapacity or raises MinSize; only Finalize of a non-flip run sets
\* MaxSize, and it sets all three sizes to DesiredCount.
C8_NeverRaised ==
    [][C8_Step /\ (InBatchLoop => asg'.MinSize <= asg.MinSize)]_vars

\* C8, amended: in the batch loop no step changes MaxSize or raises
\* DesiredCapacity, and a batch's capacity update sets MinSize to the new
\* DesiredCapacity (which may lie above the old MinSize); only Finalize of a
\* non-flip run sets MaxSize, and it sets all three sizes to DesiredCount.
C8_DesiredNeverRaised ==
    [][C8_Step /\ (InBatchLoop /\ UpdatesGroup => asg'.MinSize = asg'.DesiredCapacity)]_vars

\* Batch updates and then Finalize have acted on the group.
C8_Witness ==
    /\ Succeeded
    /\ ~Config.InstanceFlip
    /\ Len(batches) = 2
    /\ asg = AllAt(Config.DesiredCount)
    /\ \E i \in 1..Len(log) : log[i].op = "UpdateAutoScalingGroup" /\ log[i].batch = 1
                                /\ log[i].val > 0

\* C9: in flip mode no step issues an UpdateAutoScalingGroup request or
\* changes the group's MinSize, DesiredCapacity or MaxSize, terminations
\* included.
C9_FlipLeavesGroup ==
    [][Config.InstanceFlip => asg' = asg /\ ~UpdatesGroup]_vars

\* A flip run has terminated two batches and restored the service.
C9_Witness ==
    /\ Succeeded
    /\ Config.InstanceFlip
    /\ Len(batches) = 2
    /\ Cardinality(Terminated) >= 2

MismatchError == "mismatched container and instance count not allowed"

\* The step is ScaleDown's reading of the group, and the read succeeded.
ReadsGroup == pc = "describeASG" /\ result' # "cannot describe ASG"

Warns ==
    /\ Len(log') = Len(log) + 1
    /\ log'[Len(log')].op = "Warning"

\* C10 as claimed: whenever the two desired counts differ at the start of a
\* non-flip batch, the run aborts with the mismatch error unless
\* AllowASGMismatch, and with it proceeds, warns and clamps the target to
\* (group desired - BatchSize).
C10_AnyMismatch ==
    [][ReadsGroup /\ service # asg.DesiredCapacity
          => IF Config.AllowASGMismatch
             THEN /\ pc' = "drain"
                  /\ Warns
                  /\ instanceDesired' = asg.DesiredCapacity - Config.BatchSize
             ELSE pc' = "done" /\ result' = MismatchError]_vars

\* C10, amended: at the start of a non-flip batch, exactly when (service
\* desired - instances in the batch) exceeds the group's desired capacity,
\* the run aborts with the mismatch error unless AllowASGMismatch, and with
\* it proceeds, warns and clamps the target to (group desired - instances in
\* the batch); any other difference of the two counts goes unnoticed.
C10_ExcessOnly ==
    [][ReadsGroup
          => IF service - Len(batch) > asg.DesiredCapacity
             THEN IF Config.AllowASGMismatch
                  THEN /\ pc' = "drain"
                       /\ Warns
                       /\ instanceDesired' = asg.DesiredCapacity - Len(batch)
                  ELSE pc' = "done" /\ result' = MismatchError
             ELSE /\ pc' = "drain"
                  /\ log' = log
                  /\ instanceDesired' = service - Len(batch)]_vars

\* A run went on past a mismatch with a warning, on a last batch shorter
\* than BatchSize.
C10_Witness ==
    /\ pc = "drain"
    /\ Config.AllowASGMismatch
    /\ Len(batch) < Config.BatchSize
    /\ log # <<>>
    /\ log[Len(log)].op = "Warning"
    /\ log[Len(log)].batch = 2

\* The UpdateService requests the control plane accepted so far, in order.
ServiceUpdates == SelectSeq(log, LAMBDA e : e.op = "UpdateService")

\* The step is an UpdateService request the control plane accepts.
UpdatesService ==
    /\ Len(log') = Len(log) + 1
    /\ log'[Len(log')].op = "UpdateService"

\* C11: in flip mode no step changes the group's desired capacity; the
\* service's desired count is untouched until Run has read it into
\* originalTaskCount; each batch's update lowers it by the batch; and once the
\* loop is over, the one remaining step is the request that sets it to
\* originalTaskCount, after which the run is over (unless the control plane
\* rejects that request, the service then staying as the last batch left it).
C11_FlipRestores ==
    [][Config.InstanceFlip
          => /\ asg'.DesiredCapacity = asg.DesiredCapacity
             /\ pc \in {"findDrainable", "ecsService"} => svcDesired' = svcDesired
             /\ pc = "ecsService" /\ pc' = "loop" => originalTaskCount' = svcDesired
             /\ pc # "ecsService" => originalTaskCount' = originalTaskCount
             /\ pc = "updateECS" /\ UpdatesService => svcDesired' = service - Len(batch)
             /\ pc = "finalize"
                  => /\ pc' = "done"
                     /\ IF result' = "UpdateService failed"
                        THEN svcDesired' = svcDesired /\ log' = log
                        ELSE /\ svcDesired' = originalTaskCount
                             /\ UpdatesService
                             /\ log'[Len(log')].val = originalTaskCount]_vars

\* Three batches of one lowered the service from 4 to 3, 2 and 1, and the
\* run then set it back to 4.
C11_Witness ==
    /\ Succeeded
    /\ Config.InstanceFlip
    /\ Len(batches) = 3
    /\ Cardinality(Terminated) = 3
    /\ svcDesired = 4
    /\ [i \in 1..Len(ServiceUpdates) |-> ServiceUpdates[i].val] = <<3, 2, 1, 4>>

NoRoomError == "no room to decrease ECS cluster size"

AllActive == \A i \in DOMAIN status : status[i] = "ACTIVE"

\* C12: with the service's desired count equal to DesiredCount, Run never
\* enters the batch loop: it is still selecting or reading the service, or it
\* has returned, no instance drained or terminated and no update or
\* termination request issued; and having got a candidate list and read the
\* service, what it returned is the "no room to decrease" error.
C12_NoRoomAbort ==
    log = <<>> /\ svcDesired = Config.DesiredCount
        => /\ pc \in {"findDrainable", "ecsService", "done"}
           /\ AllActive
           /\ pc = "done" /\ candidates # <<>> /\ result # "DescribeServices failed"
                => result = NoRoomError /\ originalTaskCount = svcDesired

\* Run gave up for lack of room with two candidates in hand.
C12_Witness ==
    /\ pc = "done"
    /\ result = NoRoomError
    /\ svcDesired = Config.DesiredCount
    /\ Len(candidates) = 2
    /\ log = <<>>
    /\ AllActive

\* The errors Run returns for a control-plane call or wait that failed.
CallFailures ==
    {"ListContainerInstances failed", "cannot describe instances", "DescribeServices failed",
     "cannot describe ASG", "UpdateContainerInstancesState failed", "UpdateService failed",
     "WaitUntilServicesStable failed", "UpdateAutoScalingGroup failed",
     "WaitUntilGroupInService failed", "TerminateInstanceInAutoScalingGroup failed",
     "WaitUntilInstanceTerminated failed"}

\* C13 as claimed: once a control-plane call of the run has failed, the
\* DescribeClusters call of the low-task-count tier included, Run has
\* returned an error (and so issues no further call).
C13_AnyFailureAborts ==
    describeClustersErr \/ result \in CallFailures
        => pc = "done" /\ result \notin {"", "ok"}

\* The step is the restoring call of a flip run whose batch loop is over.
Restores == pc = "finalize" /\ Config.InstanceFlip

\* C14 as claimed: the restoring call of a flip run made, Run reports
\* success, whether or not the call failed.
C14_SuccessDespiteFailure ==
    [][Restores => pc' = "done" /\ result' = "ok"]_vars

\* C14, amended: the restoring call of a flip run made, Run returns: the
\* call's error if the control plane rejected the request (the service then
\* left as it was), the wait's error if the service did not become stable,
\* and success only with the service's desired count back at
\* originalTaskCount.
C14_RestoreErrorReturned ==
    [][Restores
          => /\ pc' = "done"
             /\ result' \in {"ok", "UpdateService failed", "WaitUntilServicesStable failed"}
             /\ ~UpdatesService <=> result' = "UpdateService failed"
             /\ ~UpdatesService => svcDesired' = svcDesired
             /\ result' = "ok" => svcDesired' = originalTaskCount]_vars

\* A flip run got through two batches and then failed to restore the service.
C14_Witness ==
    /\ pc = "done"
    /\ Config.InstanceFlip
    /\ result = "UpdateService failed"
    /\ ~loopCondition(start, Len(candidates), maxToRemove)
    /\ Len(batches) = 2
    /\ Cardinality(Terminated) = 2
    /\ svcDesired = originalTaskCount - 2

\* The mutating requests issued so far, in order.
Calls == SelectSeq(log, LAMBDA e : e.op # "Warning")

\* The place of a request in ScaleDown.
StepOf(op) ==
    CASE op = "UpdateContainerInstancesState" -> 1
      [] op = "UpdateService" -> 2
      [] op = "UpdateAutoScalingGroup" -> 3
      [] OTHER -> 4

\* Request i is Finalize's: an update that ended the run, after the last
\* batch's terminations if there was a batch.
IsFinalize(i) ==
    /\ i = Len(Calls)
    /\ pc = "done"
    /\ StepOf(Calls[i].op) \in {2, 3}
    /\ i > 1 => StepOf(Calls[i - 1].op) = 4

TerminationsOf(k) ==
    Len(SelectSeq(Calls, LAMBDA e : StepOf(e.op) = 4 /\ e.batch = k))

\* C15: the requests of the batches come batch after batch; a batch's first
\* request is its drain, made with start at the batch's first candidate
\* (start moves only when the previous batch's termination wait has
\* returned) and every instance of the previous batch terminated; within a
\* batch at most one service update, then (never in flip mode, and only after
\* a service update) at most one group update, then the terminations, whose
\* first comes only with the run past the waits of the updates; and a request
\* is followed by another only if its wait did not fail.
C15_StrictSequence ==
    /\ \A i \in 1..Len(Calls) :
         LET e == Calls[i]
         IN  ~IsFinalize(i) =>
               /\ i = 1 => StepOf(e.op) = 1 /\ e.batch = 1
               /\ i > 1 =>
                    LET p == Calls[i - 1]
                    IN  IF e.batch = p.batch
                        THEN \/ StepOf(p.op) < StepOf(e.op)
                             \/ StepOf(p.op) = 4 /\ StepOf(e.op) = 4
                        ELSE /\ e.batch = p.batch + 1
                             /\ StepOf(e.op) = 1
                             /\ StepOf(p.op) = 4
                             /\ TerminationsOf(p.batch)
                                    = batches[p.batch].hi - batches[p.batch].lo
               /\ StepOf(e.op) = 1 => e.val = batches[e.batch].hi - batches[e.batch].lo
               /\ StepOf(e.op) = 3 =>
                    /\ ~Config.InstanceFlip
                    /\ StepOf(Calls[i - 1].op) = 2
                    /\ Calls[i - 1].batch = e.batch
    /\ pc \in {"describeASG", "drain", "updateECS", "updateASG", "terminate"}
         => /\ start = batches[Len(batches)].lo
            /\ \A i \in 1..start : status[candidates[i]] = "TERMINATED"
    /\ pc = "updateASG"
         => service = svcDesired /\ Calls # <<>> /\ StepOf(Calls[Len(Calls)].op) = 2
    /\ pc = "updateECS" => Calls # <<>> /\ StepOf(Calls[Len(Calls)].op) = 1
    /\ result \in {"WaitUntilServicesStable failed", "WaitUntilGroupInService failed",
                    "WaitUntilInstanceTerminated failed"} => pc = "done"

\* A non-flip run is in its second batch, past drain, service update and
\* group update and one termination, after a first batch of two.
C15_Witness ==
    /\ pc = "terminate"
    /\ ~Config.InstanceFlip
    /\ Len(batches) = 2
    /\ Len(Calls) = 9
    /\ [i \in 1..9 |-> StepOf(Calls[i].op)] = <<1, 2, 3, 4, 4, 1, 2, 3, 4>>

\* C16 as claimed: in non-flip mode every termination request of a batch
\* comes after a group update of the same batch, whatever the batch's
\* computed desired count.
C16_GroupUpdatedBeforeTermination ==
    ~Config.InstanceFlip
        => \A i \in 1..Len(Calls) :
             StepOf(Calls[i].op) = 4
                 => \E j \in 1..(i - 1) : /\ StepOf(Calls[j].op) = 3
                                           /\ Calls[j].batch = Calls[i].batch

\* C17 as claimed: a batch's group update leaves the group's desired
\* capacity exactly the batch's size below what it was when the batch began.
C17_LoweredByBatch ==
    [][pc = "updateASG" /\ UpdatesGroup
          => asg'.DesiredCapacity = asg.DesiredCapacity - Len(batch)]_vars

\* C18: in every state of every run the instances the run has terminated
\* are candidates, each terminated by one request, and number at most
\* (instances in the cluster - DesiredCount); the batch in hand never reaches
\* past the candidates.
C18_TerminationsBounded ==
    /\ Cardinality(Terminated) <= Cardinality(cluster) - Config.DesiredCount
    /\ Len(TerminatedLog) = Cardinality(Terminated)
    /\ Terminated \subseteq Range(candidates)
    /\ Range(drained) \subseteq Range(candidates)
    /\ Cardinality(cluster \ Terminated) >= Config.DesiredCount

\* A flip run with batches of two, aborted by its last termination wait,
\* has terminated as many instances as the bound allows, the service's
\* desired count leaving room for one more.
C18_Witness ==
    /\ pc = "done"
    /\ result = "WaitUntilInstanceTerminated failed"
    /\ Config.InstanceFlip
    /\ Config.BatchSize = 2
    /\ Config.DesiredCount = 1
    /\ Cardinality(Terminated) = 3
    /\ maxToRemove = 4

\* C19: a run that has returned the mismatch error has issued no request
\* for the batch it was on: the batch's instances are all still ACTIVE, the
\* service's desired count is as Run last knew it, and the group's desired
\* capacity still is the one the check found too low.
C19_MismatchAbortBeforeDrain ==
    result = MismatchError
        => /\ pc = "done"
           /\ ~Config.InstanceFlip /\ ~Config.AllowASGMismatch
           /\ batch # <<>>
           /\ \A i \in Range(batch) : status[i] = "ACTIVE"
           /\ \A i \in 1..Len(log) : log[i].batch < Len(batches)
           /\ drained # batch
           /\ svcDesired = service
           /\ service - Len(batch) > asg.DesiredCapacity

\* A first batch of two was refused for a group below the service.
C19_Witness ==
    /\ result = MismatchError
    /\ Len(batch) = 2
    /\ Len(candidates) = 3
    /\ service = 5
    /\ asg.DesiredCapacity = 2

\* C20 as claimed: a run that has read a service desired count at or below
\* DesiredCount issues no mutating request: no drain, no service update, no
\* group update, no termination.
C20_NoRoomNoMutation ==
    pc \notin {"findDrainable", "ecsService"} /\ originalTaskCount <= Config.DesiredCount
        => Calls = <<>> /\ AllActive

\* The most batches the loop can run: the candidates the service's desired
\* count leaves room for, BatchSize at a time (none if there is no room).
BatchBound ==
    LET room == Min(Len(candidates), maxToRemove)
    IN  IF room <= 0 THEN 0
        ELSE (room + Config.BatchSize - 1) \div Config.BatchSize

\* C21: with BatchSize >= 1 and every call and wait returning, Run
\* eventually returns, and at no point has the loop handed ScaleDown more
\* than ceil(min(candidates, originalTaskCount - DesiredCount) / BatchSize)
\* batches; while Run has yet to read the service there is no batch at all.
C21_Terminates ==
    /\ [](/\ Config.BatchSize >= 1
          /\ pc \in {"findDrainable", "ecsService"} => batches = <<>>
          /\ pc \notin {"findDrainable", "ecsService"} => Len(batches) <= BatchBound)
    /\ <>(pc = "done")

\* A run has returned after as many batches as the bound allows: two
\* batches of at most two for three candidates.
C21_Witness ==
    /\ Succeeded
    /\ Config.BatchSize = 2
    /\ Len(candidates) = 3
    /\ maxToRemove = 4
    /\ Len(batches) = 2
    /\ BatchBound = 2

====
